---- MODULE Spec2Model ----
(***************************************************************************)
(* The real-time session handler of src/main.py: WebSocketHandler (the     *)
(* Session Event Router) and save_chat_to_firestore (the Finalize-and-     *)
(* Persist pipeline).                                                      *)
(*                                                                         *)
(* Text is a sequence of one-character strings, so that joining, splitting *)
(* and trimming are computed character by character.  A Python dict is a   *)
(* sequence of <<key, value>> pairs with distinct keys, in insertion       *)
(* order.  Scores are thousandths (900 stands for 0.9).                    *)
(***************************************************************************)
EXTENDS Integers, Sequences, FiniteSets, TLC

VARIABLES
    phase,       \* where the connection's callback protocol stands
    chat_id,     \* WebSocketHandler.chat_id
    messages,    \* WebSocketHandler.messages
    byte_strs,   \* WebSocketHandler.byte_strs, the audio output sink
    stdout,      \* the lines printed by the last handler that ran
    raised,      \* the exception the last handler let escape, or NoException
    calls,       \* the calls the last handler made, in order
    store,       \* the documents of the durable store, by collection and key
    server_time, \* the store's clock, source of SERVER_TIMESTAMP
    received,    \* how many inbound events the process has consumed
    inbox,       \* the events the connection has delivered to this handler,
                 \* in arrival order
    extract_call, \* a call of _extract_top_n_emotions on its own: its
                  \* arguments and what it returned
    played,      \* how many payloads the audio task has taken off byte_strs
    user_inputs, \* the UserInput messages sent over the socket, in order
    full_transcription, \* app-whisper.py: continuous_transcription's text
    chunks       \* app-whisper.py: the transcripts of the chunks recorded,
                 \* in recording order

vars == <<phase, chat_id, messages, byte_strs, stdout, raised, calls,
          store, server_time, received, inbox, extract_call, played,
          user_inputs, full_transcription, chunks>>

\* the state of what runs beside the handler, and of the other program
task_vars == <<played, user_inputs>>
whisper_vars == <<full_transcription, chunks>>

----------------------------------------------------------------------------
(* Bounds of the model. *)

MaxEvents == 3
MaxLabels == 3
MaxN == 4

----------------------------------------------------------------------------
(* Python values. *)

None == "None"
NoException == "NoException"
EmptyStr == <<>>
EmptyDict == <<>>

\* truthiness of a list, a dict or a text: non-empty
Truthy(x) == x # <<>>
\* truthiness of a chat id: neither None nor the empty string
TruthyId(id) == id # None /\ id # ""

Keys(d) == {d[i][1] : i \in 1..Len(d)}
Get(d, k, default) ==
    IF k \in Keys(d)
    THEN LET i == CHOOSE j \in 1..Len(d) : d[j][1] = k IN d[i][2]
    ELSE default
\* d[k] = v: an existing key keeps its position, a new key goes last
Put(d, k, v) ==
    IF k \in Keys(d)
    THEN [i \in 1..Len(d) |-> IF d[i][1] = k THEN <<k, v>> ELSE d[i]]
    ELSE Append(d, <<k, v>>)
Max(a, b) == IF a >= b THEN a ELSE b
Min(a, b) == IF a <= b THEN a ELSE b

\* s[:n]
Slice(s, n) ==
    IF n >= 0 THEN SubSeq(s, 1, Min(n, Len(s)))
    ELSE SubSeq(s, 1, Max(0, Len(s) + n))

\* dict(pairs), {k: v for k, v in pairs}
RECURSIVE DictOf(_)
DictOf(pairs) ==
    IF pairs = <<>> THEN EmptyDict
    ELSE LET last == pairs[Len(pairs)]
         IN Put(DictOf(SubSeq(pairs, 1, Len(pairs) - 1)), last[1], last[2])

\* InsertDesc, had the sort put an item before the elements equal to it
InsertDescUnstable(sorted, item) ==
    LET k == Cardinality({i \in 1..Len(sorted) : sorted[i][2] > item[2]})
    IN SubSeq(sorted, 1, k) \o <<item>> \o SubSeq(sorted, k + 1, Len(sorted))

\* One step of a stable descending sort: item goes after every element that
\* does not compare below it, so equal scores keep their original order.
InsertDesc(sorted, item) ==
    LET k == Cardinality({i \in 1..Len(sorted) : sorted[i][2] >= item[2]})
    IN SubSeq(sorted, 1, k) \o <<item>> \o SubSeq(sorted, k + 1, Len(sorted))

\* sorted(items, key=lambda item: item[1], reverse=True)
RECURSIVE SortedReverse(_)
SortedReverse(items) ==
    IF items = <<>> THEN <<>>
    ELSE InsertDesc(SortedReverse(SubSeq(items, 1, Len(items) - 1)),
                    items[Len(items)])

\* WebSocketHandler._extract_top_n_emotions
_extract_top_n_emotions(emotion_scores, n) ==
    DictOf(Slice(SortedReverse(emotion_scores), n))

----------------------------------------------------------------------------
(* Text. *)

Space == <<" ">>
Whitespace == {" ", "\n", "\t"}
Delimiter == <<"|", "|", "|">>

\* sep.join(parts)
RECURSIVE Join(_, _)
Join(sep, parts) ==
    IF parts = <<>> THEN EmptyStr
    ELSE IF Len(parts) = 1 THEN parts[1]
    ELSE parts[1] \o sep \o Join(sep, Tail(parts))

StartsAt(s, i, sep) ==
    /\ i + Len(sep) - 1 <= Len(s)
    /\ SubSeq(s, i, i + Len(sep) - 1) = sep

\* s.split(sep): cut at every occurrence of sep, scanning left to right
RECURSIVE SplitFrom(_, _, _, _)
SplitFrom(s, sep, i, start) ==
    IF i > Len(s) THEN <<SubSeq(s, start, Len(s))>>
    ELSE IF StartsAt(s, i, sep)
         THEN <<SubSeq(s, start, i - 1)>>
              \o SplitFrom(s, sep, i + Len(sep), i + Len(sep))
         ELSE SplitFrom(s, sep, i + 1, start)

Split(s, sep) == SplitFrom(s, sep, 1, 1)

\* s.strip()
RECURSIVE LStrip(_)
LStrip(s) ==
    IF s # <<>> /\ Head(s) \in Whitespace THEN LStrip(Tail(s)) ELSE s
RECURSIVE RStrip(_)
RStrip(s) ==
    IF s # <<>> /\ s[Len(s)] \in Whitespace
    THEN RStrip(SubSeq(s, 1, Len(s) - 1)) ELSE s
Strip(s) == RStrip(LStrip(s))

Digits == <<"0", "1", "2", "3", "4", "5", "6", "7", "8", "9">>
Digit(d) == Digits[d + 1]

\* A score in hundredths, rounded from thousandths to the nearest, an exact
\* tie going to the even neighbour.
RoundHundredths(score) ==
    LET q == score \div 10
        r == score % 10
    IN IF r > 5 \/ (r = 5 /\ q % 2 = 1) THEN q + 1 ELSE q

\* f"{score:.2f}"
Format2f(score) ==
    LET h == RoundHundredths(score)
    IN <<Digit(h \div 100), ".", Digit((h \div 10) % 10), Digit(h % 10)>>

B64Alphabet ==
    <<"A", "B", "C", "D", "E", "F", "G", "H", "I", "J", "K", "L", "M",
      "N", "O", "P", "Q", "R", "S", "T", "U", "V", "W", "X", "Y", "Z",
      "a", "b", "c", "d", "e", "f", "g", "h", "i", "j", "k", "l", "m",
      "n", "o", "p", "q", "r", "s", "t", "u", "v", "w", "x", "y", "z",
      "0", "1", "2", "3", "4", "5", "6", "7", "8", "9", "+", "/">>
B64Value(c) ==
    IF c = "=" THEN 0
    ELSE (CHOOSE i \in 1..Len(B64Alphabet) : B64Alphabet[i] = c) - 1

\* base64.b64decode: each four characters carry 24 bits, three bytes, of
\* which a trailing "=" or "==" drops the last one or two.
RECURSIVE b64decode(_)
b64decode(s) ==
    IF Len(s) < 4 THEN <<>>
    ELSE LET bits == B64Value(s[1]) * 262144 + B64Value(s[2]) * 4096
                     + B64Value(s[3]) * 64 + B64Value(s[4])
             bytes == <<bits \div 65536, (bits \div 256) % 256, bits % 256>>
             pad == Cardinality({i \in 3..4 : s[i] = "="})
         IN SubSeq(bytes, 1, 3 - pad) \o b64decode(SubSeq(s, 5, Len(s)))

----------------------------------------------------------------------------
(* The inbound events of the connection (SubscribeEvent). *)

\* chat ids are opaque: they are only stored, tested for emptiness and used
\* as a document key
ChatIds == {"c1", "c2"}

Prosody1 == << <<"joy", 904>>, <<"sad", 500>> >>
Prosody2 == << <<"sad", 904>>, <<"calm", 125>>, <<"fear", 125>>, <<"joy", 200>> >>

Event(type, id, role, content, from_text, scores, data) ==
    [type |-> type, chat_id |-> id, role |-> role, content |-> content,
     from_text |-> from_text, scores |-> scores, data |-> data]

MetadataEvents ==
    {Event("chat_metadata", id, "", EmptyStr, FALSE, EmptyDict, EmptyStr) :
        id \in ChatIds}

\* A typed turn holds prosody the handler must not read; a spoken turn may
\* have been transcribed to the empty text.
UserEvents ==
    {Event("user_message", "", "user", <<"a">>, TRUE, Prosody1, EmptyStr)}
    \cup {Event("user_message", "", "user", t[1], FALSE, t[2], EmptyStr) :
            t \in {<<EmptyStr, Prosody1>>, <<<<"a">>, Prosody1>>,
                   <<<<"b", " ", "c">>, Prosody2>>}}

AssistantEvents ==
    {Event("assistant_message", "", "assistant", <<"o", "k">>, TRUE,
           Prosody1, EmptyStr),
     Event("assistant_message", "", "assistant", <<"o", "k">>, FALSE,
           Prosody2, EmptyStr)}

AudioEvents ==
    {Event("audio_output", "", "", EmptyStr, FALSE, EmptyDict, d) :
        d \in {<<"Y", "Q", "=", "=">>, <<"Y", "W", "I", "=">>}}

ErrorEvents ==
    {Event("error", "", "", EmptyStr, FALSE, EmptyDict, EmptyStr)}

OtherEvents ==
    {Event("tool_call", "", "", EmptyStr, FALSE, EmptyDict, EmptyStr)}

Events ==
    MetadataEvents \cup UserEvents \cup AssistantEvents \cup AudioEvents
    \cup ErrorEvents \cup OtherEvents

\* role.upper()
Upper(role) ==
    CASE role = "user" -> "USER"
      [] role = "assistant" -> "ASSISTANT"
      [] OTHER -> role

----------------------------------------------------------------------------
(* What a handler prints: one line is its kind and the scores it shows.    *)

Line(kind) == [kind |-> kind, scores |-> EmptyDict]
ScoresLine(scores) == [kind |-> "emotions", scores |-> scores]

\* WebSocketHandler._print_prompt
_print_prompt == Line("prompt")

\* WebSocketHandler._print_emotion_scores
_print_emotion_scores(emotion_scores) ==
    ScoresLine([i \in 1..Len(emotion_scores) |->
                  <<emotion_scores[i][1], Format2f(emotion_scores[i][2])>>])

\* datetime.datetime.utcnow(): the clock ticks once with every event
utcnow == received

----------------------------------------------------------------------------
(* The callback protocol of connect_with_callbacks: on_open, then          *)
(* on_message for each inbound event while the stream lasts, on_error for  *)
(* an exception that ends the stream, and on_close when the connection     *)
(* closes.                                                                 *)

Receiving == phase = "open"
Closable == phase \in {"open", "errored"}

\* WebSocketHandler.__init__
NewHandler ==
    /\ phase = "constructed"
    /\ chat_id = None
    /\ messages = <<>>
    /\ byte_strs = <<>>
    /\ stdout = <<>>
    /\ raised = NoException
    /\ calls = <<>>
    /\ received = 0
    /\ inbox = <<>>

\* the tasks main starts beside the handler have not run
NoTasks == played = 0 /\ user_inputs = <<>>
\* app-whisper.py is not running
NoWhisper == full_transcription = EmptyStr /\ chunks = <<>>

\* WebSocketHandler.on_open
on_open ==
    /\ phase = "constructed"
    /\ phase' = "open"
    /\ UNCHANGED <<extract_call, task_vars, whisper_vars>>
    /\ stdout' = <<Line("opened")>>
    /\ raised' = NoException
    /\ calls' = <<>>
    /\ UNCHANGED <<chat_id, messages, byte_strs, store, server_time, received,
                   inbox>>


\* NewMessage, had it stored the prosody scores whatever from_text says
NewMessageAlwaysScores(message) ==
    [role |-> Upper(message.role),
     message |-> message.content,
     timestamp |-> utcnow,
     emotions |-> DictOf(message.scores)]

\* the message a user/assistant turn appends
NewMessage(message) ==
    [role |-> Upper(message.role),
     message |-> message.content,
     timestamp |-> utcnow,
     emotions |-> IF message.from_text = FALSE THEN DictOf(message.scores)
                  ELSE EmptyDict]

\* what on_message prints after its dispatch, given the scores it extracted
PrintTurn(scores) ==
    <<_print_prompt>>
    \o IF Truthy(scores)
       THEN <<_print_emotion_scores(_extract_top_n_emotions(scores, 3)),
              Line("blank")>>
       ELSE <<>>

\* RaiseApiError, had the error event been printed like an unrecognized kind
IgnoreError ==
    /\ raised' = NoException
    /\ stdout' = <<Line("prompt")>>
    /\ UNCHANGED <<phase, chat_id, messages, byte_strs>>

\* the error branch of on_message: raise ApiError
RaiseApiError ==
    /\ raised' = "ApiError"
    /\ phase' = "failed"
    /\ stdout' = <<>>
    /\ UNCHANGED <<chat_id, messages, byte_strs>>

\* RecordChatId, had it kept an id already recorded
RecordChatIdIfUnset(message) ==
    /\ chat_id' = IF chat_id = None THEN message.chat_id ELSE chat_id
    /\ stdout' = PrintTurn(EmptyDict)
    /\ raised' = NoException
    /\ UNCHANGED <<phase, messages, byte_strs>>

\* the chat_metadata branch of on_message
RecordChatId(message) ==
    /\ chat_id' = message.chat_id
    /\ stdout' = PrintTurn(EmptyDict)
    /\ raised' = NoException
    /\ UNCHANGED <<phase, messages, byte_strs>>


\* AppendTurn, had it put the new turn in front of the earlier ones
AppendTurnFront(message) ==
    /\ messages' = <<NewMessage(message)>> \o messages
    /\ stdout' = PrintTurn(NewMessage(message).emotions)
    /\ raised' = NoException
    /\ UNCHANGED <<phase, chat_id, byte_strs>>

\* the user_message / assistant_message branch of on_message
AppendTurn(message) ==
    /\ messages' = Append(messages, NewMessage(message))
    /\ stdout' = PrintTurn(NewMessage(message).emotions)
    /\ raised' = NoException
    /\ UNCHANGED <<phase, chat_id, byte_strs>>


\* PutAudio, had it put the payload ahead of those already on the sink
PutAudioFront(message) ==
    /\ byte_strs' = <<b64decode(message.data)>> \o byte_strs
    /\ stdout' = <<>>
    /\ raised' = NoException
    /\ UNCHANGED <<phase, chat_id, messages>>

\* the audio_output branch of on_message: decode, put, return without printing
PutAudio(message) ==
    /\ byte_strs' = Append(byte_strs, b64decode(message.data))
    /\ stdout' = <<>>
    /\ raised' = NoException
    /\ UNCHANGED <<phase, chat_id, messages>>


\* PrintKind, had it stored the event it has no branch for as a turn
PrintKindAndStore(message) ==
    /\ messages' = Append(messages, NewMessage(message))
    /\ stdout' = PrintTurn(EmptyDict)
    /\ raised' = NoException
    /\ UNCHANGED <<phase, chat_id, byte_strs>>

\* the else branch of on_message: the kind is printed, nothing is stored
PrintKind(message) ==
    /\ stdout' = PrintTurn(EmptyDict)
    /\ raised' = NoException
    /\ UNCHANGED <<phase, chat_id, messages, byte_strs>>

\* WebSocketHandler.on_message
on_message(message) ==
    /\ Receiving
    /\ received < MaxEvents
    /\ received' = received + 1
    /\ inbox' = Append(inbox, message)
    /\ UNCHANGED <<extract_call, task_vars, whisper_vars>>
    /\ calls' = <<>>
    /\ UNCHANGED <<store, server_time>>
    /\ CASE message.type = "chat_metadata" -> RecordChatId(message)
         [] message.type \in {"user_message", "assistant_message"} ->
              AppendTurn(message)
         [] message.type = "audio_output" -> PutAudio(message)
         [] message.type = "error" -> RaiseApiError
         [] OTHER -> PrintKind(message)


\* on_error, had it dropped the turns gathered before the error
on_error_discarding ==
    /\ phase = "failed"
    /\ phase' = "errored"
    /\ UNCHANGED <<extract_call, task_vars, whisper_vars>>
    /\ messages' = <<>>
    /\ stdout' = <<Line("error")>>
    /\ raised' = NoException
    /\ calls' = <<>>
    /\ UNCHANGED <<chat_id, byte_strs, store, server_time, received, inbox>>

\* WebSocketHandler.on_error
on_error ==
    /\ phase = "failed"
    /\ phase' = "errored"
    /\ UNCHANGED <<extract_call, task_vars, whisper_vars>>
    /\ stdout' = <<Line("error")>>
    /\ raised' = NoException
    /\ calls' = <<>>
    /\ UNCHANGED <<chat_id, messages, byte_strs, store, server_time, received,
                   inbox>>

----------------------------------------------------------------------------
(* The external collaborators: what a Text Analysis call or a store write  *)
(* may answer.                                                             *)

Raises == [ok |-> FALSE, content |-> EmptyStr]
Returns(content) == [ok |-> TRUE, content |-> content]

SentimentResponses ==
    {<<"a", "|", "|", "|", "b">>,
     <<" ", "a", " ", "|", "|", "|", " ", "b", "\n">>,
     <<"a", "b">>,
     <<"a", "|", "|", "|", "b", "|", "|", "|", "c">>}
SentimentOutcomes == {Raises} \cup {Returns(r) : r \in SentimentResponses}
EntitiesOutcomes == {Raises, Returns(<<"e">>)}
WriteOutcomes == BOOLEAN

\* one entry of the call trace: the callee, how the call ended and, for a
\* completion call, the content the service answered with
Answered(name, result, response) ==
    [name |-> name, result |-> result, response |-> response]
Call(name, result) == Answered(name, result, EmptyStr)
Returned == "returned"


\* analyze_sentiment_with_chatgpt, had it taken a response that does not
\* split in two as analysis text with no feedback
analyze_sentiment_lenient(outcome) ==
    IF ~outcome.ok
    THEN [raised |-> "APIError", analysis |-> EmptyStr, feedback |-> EmptyStr]
    ELSE LET parts == Split(outcome.content, Delimiter)
         IN IF Len(parts) # 2
            THEN [raised |-> NoException, analysis |-> Strip(outcome.content),
                  feedback |-> EmptyStr]
            ELSE [raised |-> NoException, analysis |-> Strip(parts[1]),
                  feedback |-> Strip(parts[2])]

\* analyze_sentiment_with_chatgpt: the completion call, then the unpacking of
\* the split response into exactly two parts
analyze_sentiment_with_chatgpt(outcome) ==
    IF ~outcome.ok
    THEN [raised |-> "APIError", analysis |-> EmptyStr, feedback |-> EmptyStr]
    ELSE LET parts == Split(outcome.content, Delimiter)
         IN IF Len(parts) # 2
            THEN [raised |-> "ValueError", analysis |-> EmptyStr,
                  feedback |-> EmptyStr]
            ELSE [raised |-> NoException, analysis |-> Strip(parts[1]),
                  feedback |-> Strip(parts[2])]

\* extract_entities_with_emotions
extract_entities_with_emotions(outcome) ==
    IF ~outcome.ok THEN [raised |-> "APIError", content |-> EmptyStr]
    ELSE [raised |-> NoException, content |-> outcome.content]

----------------------------------------------------------------------------
(* The Finalize-and-Persist pipeline, save_chat_to_firestore.              *)

\* Transcript, had it not filtered on the role
TranscriptAnyRole(msgs) ==
    Join(Space, [i \in 1..Len(msgs) |-> msgs[i].message])

\* " ".join([msg["message"] for msg in messages if msg["role"] == "USER"])
Transcript(msgs) ==
    LET users == SelectSeq(msgs, LAMBDA msg : msg.role = "USER")
    IN Join(Space, [i \in 1..Len(users) |-> users[i].message])

\* MergeScores, had it kept the latest score instead of the maximum
RECURSIVE MergeScoresLatest(_, _)
MergeScoresLatest(all_emotions, items) ==
    IF items = <<>> THEN all_emotions
    ELSE MergeScoresLatest(Put(all_emotions, items[1][1], items[1][2]),
                           Tail(items))

\* the inner loop: all_emotions[emotion] = max(score, all_emotions.get(emotion, 0))
RECURSIVE MergeScores(_, _)
MergeScores(all_emotions, items) ==
    IF items = <<>> THEN all_emotions
    ELSE LET emotion == items[1][1]
             score == items[1][2]
         IN MergeScores(Put(all_emotions, emotion,
                            Max(score, Get(all_emotions, emotion, 0))),
                        Tail(items))

\* the outer loop over the messages, in order
RECURSIVE AllEmotions(_)

\* AllEmotions, had it taken the scores of every role
RECURSIVE AllEmotionsAnyRole(_)
AllEmotionsAnyRole(msgs) ==
    IF msgs = <<>> THEN EmptyDict
    ELSE LET msg == msgs[Len(msgs)]
             before == AllEmotionsAnyRole(SubSeq(msgs, 1, Len(msgs) - 1))
         IN IF Truthy(msg.emotions)
            THEN MergeScores(before, msg.emotions)
            ELSE before

AllEmotions(msgs) ==
    IF msgs = <<>> THEN EmptyDict
    ELSE LET msg == msgs[Len(msgs)]
             before == AllEmotions(SubSeq(msgs, 1, Len(msgs) - 1))
         IN IF msg.role = "USER" /\ Truthy(msg.emotions)
            THEN MergeScores(before, msg.emotions)
            ELSE before

\* dict(sorted(all_emotions.items(), key=lambda x: x[1], reverse=True)[:3])
TopEmotions(all_emotions) == DictOf(Slice(SortedReverse(all_emotions), 3))

\* {emotion: f"{score:.2f}" for emotion, score in top_emotions.items()}
FormatEmotions(top_emotions) ==
    DictOf([i \in 1..Len(top_emotions) |->
              <<top_emotions[i][1], Format2f(top_emotions[i][2])>>])

\* chat_data
ChatData(transcript, top_emotions, analysis, feedback, associations, ts) ==
    [transcript |-> transcript,
     top_emotions |-> FormatEmotions(top_emotions),
     emotional_analysis |-> analysis,
     empathetic_feedback |-> feedback,
     emotional_associations |-> associations,
     timestamp |-> ts]

\* DocumentRef, had it asked for an auto-generated document id
DocumentRefAuto(id) == <<"Hume", ToString(server_time)>>

\* db.collection("Hume").document(chat_id)
DocumentRef(id) == <<"Hume", id>>

\* DocumentReference.set(data): the document at ref now holds data, whether
\* or not one was there; every other document stays
DocumentSet(documents, ref, data) ==
    [r \in DOMAIN documents \cup {ref} |->
        IF r = ref THEN data ELSE documents[r]]

\* what one run of the pipeline does, given what it found and what it left
Outcome(documents, time, trace, lines, exception) ==
    [store |-> documents, server_time |-> time, calls |-> trace,
     stdout |-> lines, raised |-> exception]

\* Reraise, had the handler ended without the bare raise
Swallow(exception, trace) ==
    [store |-> store, server_time |-> server_time, calls |-> trace,
     stdout |-> <<Line("save_error"), Line("error_type")>>,
     raised |-> NoException]

\* except Exception as e: print both lines, raise
Reraise(exception, trace) ==
    Outcome(store, server_time, trace,
            <<Line("save_error"), Line("error_type")>>, exception)


\* Persist, had it tried the write a second time after a failure
PersistWithRetry(id, chat_data, wr, trace) ==
    Outcome(DocumentSet(store, DocumentRef(id), chat_data), server_time + 1,
            IF wr THEN Append(trace, Call("set", Returned))
            ELSE trace \o <<Call("set", "GoogleAPICallError"),
                            Call("set", Returned)>>,
            <<Line("results")>>, NoException)

\* the write and what follows it
Persist(id, chat_data, wr, trace) ==
    IF ~wr
    THEN Reraise("GoogleAPICallError", Append(trace, Call("set", "GoogleAPICallError")))
    ELSE Outcome(DocumentSet(store, DocumentRef(id), chat_data),
                 server_time + 1, Append(trace, Call("set", Returned)),
                 <<Line("results")>>, NoException)


\* Analyze, had it written the record before the second analysis call
AnalyzeWriteEarly(id, transcript, top_emotions, sent, ent, wr) ==
    LET s == analyze_sentiment_with_chatgpt(sent)
        e == extract_entities_with_emotions(ent)
        t1 == <<Answered("analyze_sentiment_with_chatgpt",
                         IF s.raised = NoException THEN Returned ELSE s.raised,
                         sent.content)>>
        written == Persist(id,
                           ChatData(transcript, top_emotions, s.analysis,
                                    s.feedback, EmptyStr, server_time + 1),
                           wr, t1)
    IN IF s.raised # NoException THEN Reraise(s.raised, t1)
       ELSE IF written.raised # NoException THEN written
       ELSE [written EXCEPT
                !.calls = Append(@, Answered("extract_entities_with_emotions",
                             IF e.raised = NoException THEN Returned
                             ELSE e.raised, ent.content)),
                !.raised = e.raised]

\* the two analysis calls, in the order the code makes them
Analyze(id, transcript, top_emotions, sent, ent, wr) ==
    LET s == analyze_sentiment_with_chatgpt(sent)
        e == extract_entities_with_emotions(ent)
        t1 == <<Answered("analyze_sentiment_with_chatgpt",
                         IF s.raised = NoException THEN Returned ELSE s.raised,
                         sent.content)>>
        t2 == Append(t1, Answered("extract_entities_with_emotions",
                         IF e.raised = NoException THEN Returned ELSE e.raised,
                         ent.content))
    IN IF s.raised # NoException THEN Reraise(s.raised, t1)
       ELSE IF e.raised # NoException THEN Reraise(e.raised, t2)
       ELSE Persist(id,
                    ChatData(transcript, top_emotions, s.analysis, s.feedback,
                             e.content, server_time + 1),
                    wr, t2)


\* save_chat_to_firestore, had it looked at the chat id only after the
\* transcript
save_chat_to_firestore_id_checked_late(id, msgs, sent, ent, wr) ==
    IF ~Truthy(Transcript(msgs))
    THEN Outcome(store, server_time, <<>>, <<Line("warning")>>, NoException)
    ELSE IF ~TruthyId(id) THEN Reraise("ValueError", <<>>)
         ELSE Analyze(id, Transcript(msgs), TopEmotions(AllEmotions(msgs)),
                      sent, ent, wr)

\* save_chat_to_firestore
save_chat_to_firestore(id, msgs, sent, ent, wr) ==
    IF ~TruthyId(id) THEN Reraise("ValueError", <<>>)
    ELSE IF ~Truthy(Transcript(msgs))
         THEN Outcome(store, server_time, <<>>, <<Line("warning")>>, NoException)
         ELSE Analyze(id, Transcript(msgs), TopEmotions(AllEmotions(msgs)),
                      sent, ent, wr)

\* The durable store outlives the process: what an earlier session, which
\* heard one spoken "a" under chat id c1, has left in it.
EarlierStore ==
    DocumentSet(<<>>, <<"Hume", "c1">>,
                ChatData(<<"a">>, TopEmotions(Prosody1), <<"a">>, <<"b">>,
                         <<"e">>, 1))

\* no call of _extract_top_n_emotions on its own
NoExtract ==
    [emotion_scores |-> EmptyDict, n |-> 0, returned |-> FALSE,
     result |-> EmptyDict, again |-> FALSE, result_again |-> EmptyDict]

\* The process starts with a fresh handler, against a store that is empty or
\* holds the earlier session's document.
Init ==
    /\ NewHandler
    /\ NoTasks
    /\ NoWhisper
    /\ extract_call = NoExtract
    /\ \/ store = <<>> /\ server_time = 0
       \/ store = EarlierStore /\ server_time = 1

\* ShouldSave, had on_close called the pipeline unconditionally
ShouldSaveAlways == TRUE


\* ShouldSave, had on_close looked at the messages only
ShouldSaveIfMessages == Truthy(messages)

\* if self.chat_id and self.messages
ShouldSave == TruthyId(chat_id) /\ Truthy(messages)

\* WebSocketHandler.on_close
on_close ==
    /\ Closable
    /\ phase' = "closed"
    /\ UNCHANGED <<chat_id, messages, byte_strs, received, inbox, extract_call>>
    /\ UNCHANGED <<task_vars, whisper_vars>>
    /\ IF ShouldSave
       THEN \E sent \in SentimentOutcomes, ent \in EntitiesOutcomes,
               wr \in WriteOutcomes :
               LET run == save_chat_to_firestore(chat_id, messages, sent, ent, wr)
               IN /\ store' = run.store
                  /\ server_time' = run.server_time
                  /\ calls' = <<Call("save_chat_to_firestore",
                                     IF run.raised = NoException THEN Returned
                                     ELSE run.raised)>> \o run.calls
                  /\ stdout' = <<Line("closed")>> \o run.stdout
                  /\ raised' = run.raised
       ELSE /\ calls' = <<>>
            /\ stdout' = <<Line("closed")>>
            /\ raised' = NoException
            /\ UNCHANGED <<store, server_time>>

\* main() run again: a fresh WebSocketHandler against the same durable store
NewSession ==
    /\ phase = "closed"
    /\ received < MaxEvents
    /\ phase' = "constructed"
    /\ chat_id' = None
    /\ messages' = <<>>
    /\ byte_strs' = <<>>
    /\ stdout' = <<>>
    /\ raised' = NoException
    /\ calls' = <<>>
    /\ inbox' = <<>>
    /\ played' = 0
    /\ user_inputs' = <<>>
    /\ UNCHANGED <<store, server_time, received, extract_call, whisper_vars>>

Next ==
    \/ on_open
    \/ \E message \in Events : on_message(message)
    \/ on_error
    \/ on_close
    \/ NewSession

Spec == Init /\ [][Next]_vars

----------------------------------------------------------------------------
(* _extract_top_n_emotions called on its own, on any score mapping of up   *)
(* to MaxLabels labels and any n from 0 to MaxN, and then on its result.   *)


----------------------------------------------------------------------------
(* save_chat_to_firestore called on its own, with any chat_id and any      *)
(* short list of messages as arguments.                                    *)

MaxMessages == 2

\* the chat_id argument: None, the empty string or an id
ChatIdArguments == {None, ""} \cup ChatIds
\* the messages argument: Messages as on_message builds them
MessagesArguments ==
    UNION {[1..k -> {NewMessage(e) : e \in UserEvents \cup AssistantEvents}] :
              k \in 0..MaxMessages}

PipelineInit ==
    /\ phase = "calling"
    /\ received = 0
    /\ inbox = <<>>
    /\ byte_strs = <<>>
    /\ stdout = <<>>
    /\ raised = NoException
    /\ calls = <<>>
    /\ extract_call = NoExtract
    /\ NoTasks
    /\ NoWhisper
    /\ \/ store = <<>> /\ server_time = 0
       \/ store = EarlierStore /\ server_time = 1
    /\ chat_id \in ChatIdArguments
    /\ messages \in MessagesArguments

PipelineCall ==
    /\ phase = "calling"
    /\ phase' = "returned"
    /\ UNCHANGED <<chat_id, messages, byte_strs, received, inbox, extract_call>>
    /\ UNCHANGED <<task_vars, whisper_vars>>
    /\ \E sent \in SentimentOutcomes, ent \in EntitiesOutcomes,
          wr \in WriteOutcomes :
          LET run == save_chat_to_firestore(chat_id, messages, sent, ent, wr)
          IN /\ store' = run.store
             /\ server_time' = run.server_time
             /\ calls' = run.calls
             /\ stdout' = run.stdout
             /\ raised' = run.raised

PipelineNext == PipelineCall
PipelineSpec == PipelineInit /\ [][PipelineNext]_vars


----------------------------------------------------------------------------
(* main: the handler's callbacks together with the two tasks main starts   *)
(* on the open socket, the microphone task and sending_handler, scheduled  *)
(* in any order between the callbacks.                                     *)

\* the socket is open: the tasks main gathers are alive
Connected == phase \in {"open", "failed", "errored"}

\* UserInput(text="Hello there!")
HelloThere == "Hello there!"

\* sending_handler, had it also kept what it sent as a turn of the session
sending_handler_recording ==
    /\ Connected
    /\ user_inputs = <<>>
    /\ user_inputs' = <<HelloThere>>
    /\ messages' = Append(messages,
                          [role |-> "USER", message |-> EmptyStr,
                           timestamp |-> utcnow, emotions |-> EmptyDict])
    /\ UNCHANGED <<phase, chat_id, byte_strs, stdout, raised, calls, store,
                   server_time, received, inbox, extract_call, played,
                   whisper_vars>>

\* sending_handler: after its sleep, one UserInput over the socket
sending_handler ==
    /\ Connected
    /\ user_inputs = <<>>
    /\ user_inputs' = <<HelloThere>>
    /\ UNCHANGED <<phase, chat_id, messages, byte_strs, stdout, raised, calls,
                   store, server_time, received, inbox, extract_call, played,
                   whisper_vars>>

\* MicrophoneInterface.start(socket, byte_stream=byte_strs): the task takes
\* the next payload off the sink and plays it
MicrophoneTask ==
    /\ Connected
    /\ played < Len(byte_strs)
    /\ played' = played + 1
    /\ UNCHANGED <<phase, chat_id, messages, byte_strs, stdout, raised, calls,
                   store, server_time, received, inbox, extract_call,
                   user_inputs, whisper_vars>>

\* the events the connection delivers while the tasks run: one of each kind
\* on_message tells apart, and both chat ids
ConcurrentEvents ==
    MetadataEvents \cup ErrorEvents \cup OtherEvents
    \cup {e \in UserEvents \cup AssistantEvents :
             ~e.from_text /\ e.content # EmptyStr /\ Len(e.content) < 3}
    \cup {e \in AudioEvents : Len(b64decode(e.data)) = 1}

ConcurrentNext ==
    \/ on_open
    \/ \E message \in ConcurrentEvents : on_message(message)
    \/ on_error
    \/ on_close
    \/ sending_handler
    \/ MicrophoneTask

ConcurrentSpec == Init /\ [][ConcurrentNext]_vars


----------------------------------------------------------------------------
(* The non-realtime program, src/app-whisper.py: main, the loop of         *)
(* continuous_transcription and process_transcription_with_chatgpt.  Here  *)
(* phase is where the program stands, inbox the answers typed at its       *)
(* prompts, and stdout, calls and raised belong to the last step.          *)

MaxChunks == 3

UpperCase == <<"A", "B", "C", "D", "E", "F", "G", "H", "I", "J", "K", "L",
     "M", "N",
      "O", "P", "Q", "R", "S", "T", "U", "V", "W", "X", "Y", "Z">>
LowerCase == <<"a", "b", "c", "d", "e", "f", "g", "h", "i", "j", "k", "l",
     "m", "n",
      "o", "p", "q", "r", "s", "t", "u", "v", "w", "x", "y", "z">>
\* str.lower(), character by character
LowerChar(c) ==
    IF \E i \in DOMAIN UpperCase : UpperCase[i] = c
    THEN LowerCase[CHOOSE i \in DOMAIN UpperCase : UpperCase[i] = c]
    ELSE c
Lower(s) == [i \in 1..Len(s) |-> LowerChar(s[i])]
\* sub in s
Contains(s, sub) == \E i \in 1..Len(s) : StartsAt(s, i, sub)

TerminationPhrase == <<"t", "h", "a", "t", "'", "s", " ", "i", "t">>
StartCommand == <<"s", "t", "a", "r", "t">>
StopCommand == <<"s", "t", "o", "p">>

\* what Whisper may make of a chunk
ChunkTranscripts ==
    {<<"h", "i">>, EmptyStr, <<"T", "h", "a", "t", "'", "s", " ", "i",
     "t">>, <<"o", "k", " ", "t", "h", "a", "t", "'", "s", " ", "i", "t",
     "!">>}
\* transcribe_with_whisper: the text of the chunk, or the API call raises
TranscribeOutcomes == {Raises} \cup {Returns(t) : t \in ChunkTranscripts}
\* what the user may type at the first prompt and after a chunk
StartAnswers == {<<"s", "t", "a", "r", "t">>, <<" ", "S", "t", "a", "r",
     "t">>, <<"q", "u", "i", "t">>, EmptyStr}
PromptAnswers == {EmptyStr, <<"s", "t", "o", "p">>, <<"S", "T", "O", "P",
     " ">>, <<"n", "o">>}
WhisperSentimentOutcomes == {Raises, Returns(<<"s">>)}

\* db.collection("conversations").document(): an id no document has yet
AutoDocumentRef(documents) ==
    <<"conversations", ToString(Cardinality(DOMAIN documents) + 1)>>

\* save_to_firestore, had it let the error of the write out
save_to_firestore_raising(transcription, sentiment, entities, wr, trace) ==
    IF wr
    THEN Outcome(DocumentSet(store, AutoDocumentRef(store),
                             [transcription |-> transcription,
                              sentiment |-> sentiment, entities |-> entities,
                              timestamp |-> server_time + 1]),
                 server_time + 1, Append(trace, Call("set", Returned)),
                 <<Line("saved")>>, NoException)
    ELSE Outcome(store, server_time,
                 Append(trace, Call("set", "GoogleAPICallError")),
                 <<>>, "GoogleAPICallError")

\* save_to_firestore
save_to_firestore(transcription, sentiment, entities, wr, trace) ==
    IF wr
    THEN Outcome(DocumentSet(store, AutoDocumentRef(store),
                             [transcription |-> transcription,
                              sentiment |-> sentiment, entities |-> entities,
                              timestamp |-> server_time + 1]),
                 server_time + 1, Append(trace, Call("set", Returned)),
                 <<Line("saved")>>, NoException)
    ELSE Outcome(store, server_time,
                 Append(trace, Call("set", "GoogleAPICallError")),
                 <<Line("firestore_error")>>, NoException)

\* the call of analysis function name, inside its try/except: what it
\* leaves in the trace, the value of its field and the lines printed
TriedAnalysis(name, outcome) ==
    IF outcome.ok
    THEN [call |-> Answered(name, Returned, outcome.content),
          value |-> outcome.content, lines |-> <<Line(name)>>]
    ELSE [call |-> Answered(name, "APIError", EmptyStr),
          value |-> EmptyStr, lines |-> <<Line("analysis_error")>>]

\* process_transcription_with_chatgpt, had both analysis calls been in one
\* try block
process_transcription_one_try(transcription, sent, ent, wr) ==
    LET s == TriedAnalysis("analyze_sentiment_with_chatgpt", sent)
        e == TriedAnalysis("extract_entities_with_emotions", ent)
        saved == IF sent.ok
                 THEN save_to_firestore(transcription, s.value, e.value, wr,
                                        <<s.call, e.call>>)
                 ELSE save_to_firestore(transcription, EmptyStr, EmptyStr, wr,
                                        <<s.call>>)
    IN [saved EXCEPT !.stdout = <<Line("transcription")>> \o s.lines
                                \o (IF sent.ok THEN e.lines ELSE <<>>) \o @]

\* process_transcription_with_chatgpt
process_transcription_with_chatgpt(transcription, sent, ent, wr) ==
    LET s == TriedAnalysis("analyze_sentiment_with_chatgpt", sent)
        e == TriedAnalysis("extract_entities_with_emotions", ent)
        saved == save_to_firestore(transcription, s.value, e.value, wr,
                                   <<s.call, e.call>>)
    IN [saved EXCEPT !.stdout = <<Line("transcription")>> \o s.lines
                                \o e.lines \o @]


\* "that's it" in transcript, had the transcript not been lowered
SaysThatsItAsSpelled(transcript) == Contains(transcript, TerminationPhrase)

\* "that's it" in transcript.lower()
SaysThatsIt(transcript) == Contains(Lower(transcript), TerminationPhrase)

\* input(...).strip().lower()
Typed(answer) == Lower(Strip(answer))

WhisperInit ==
    /\ phase = "main"
    /\ chat_id = None
    /\ messages = <<>>
    /\ byte_strs = <<>>
    /\ stdout = <<>>
    /\ raised = NoException
    /\ calls = <<>>
    /\ received = 0
    /\ inbox = <<>>
    /\ extract_call = NoExtract
    /\ NoTasks
    /\ NoWhisper
    /\ store = <<>>
    /\ server_time = 0

\* main of app-whisper.py: the first prompt, and on "start" the opening of
\* continuous_transcription up to its loop
main(answer) ==
    /\ phase = "main"
    /\ inbox' = Append(inbox, answer)
    /\ IF Typed(answer) = StartCommand
       THEN /\ phase' = "recording"
            /\ stdout' = <<Line("banner"), Line("listening")>>
       ELSE /\ phase' = "exited"
            /\ stdout' = <<Line("banner"), Line("exiting")>>
    /\ full_transcription' = EmptyStr
    /\ calls' = <<>>
    /\ raised' = NoException
    /\ UNCHANGED <<chat_id, messages, byte_strs, store, server_time, received,
                   extract_call, task_vars, chunks>>

\* the break out of the loop and the call that follows the loop:
\* process_transcription_with_chatgpt(full_transcription)
EndLoop(transcription, lines, trace) ==
    \E sent \in WhisperSentimentOutcomes, ent \in EntitiesOutcomes,
       wr \in WriteOutcomes :
       LET run == process_transcription_with_chatgpt(transcription, sent,
                                                     ent, wr)
       IN /\ phase' = "finished"
          /\ store' = run.store
          /\ server_time' = run.server_time
          /\ calls' = trace \o run.calls
          /\ stdout' = lines \o run.stdout
          /\ raised' = run.raised

\* one turn of the loop of continuous_transcription, up to the prompt:
\* record, transcribe, append, look for the termination phrase
RecordChunk ==
    /\ phase = "recording"
    /\ Len(chunks) < MaxChunks
    /\ UNCHANGED <<chat_id, messages, byte_strs, received, inbox,
                   extract_call, task_vars>>
    /\ \E outcome \in TranscribeOutcomes :
          IF ~outcome.ok
          THEN /\ phase' = "crashed"
               /\ raised' = "APIError"
               /\ calls' = <<Call("transcribe_with_whisper", "APIError")>>
               /\ stdout' = <<Line("new_chunk")>>
               /\ UNCHANGED <<store, server_time, full_transcription, chunks>>
          ELSE LET transcript == outcome.content
                   full == full_transcription \o <<" ">> \o transcript
                   trace == <<Call("transcribe_with_whisper", Returned)>>
               IN /\ chunks' = Append(chunks, transcript)
                  /\ full_transcription' = full
                  /\ IF SaysThatsIt(transcript)
                     THEN EndLoop(full,
                                  <<Line("new_chunk"), Line("partial"),
                                    Line("phrase_detected")>>, trace)
                     ELSE /\ phase' = "prompting"
                          /\ calls' = trace
                          /\ stdout' = <<Line("new_chunk"), Line("partial"),
                                         Line("stop_prompt")>>
                          /\ raised' = NoException
                          /\ UNCHANGED <<store, server_time>>

\* the rest of the turn: the answer to "Press Enter to continue recording,
\* or type 'stop' to end"
AnswerPrompt(answer) ==
    /\ phase = "prompting"
    /\ inbox' = Append(inbox, answer)
    /\ UNCHANGED <<chat_id, messages, byte_strs, received, extract_call,
                   task_vars, full_transcription, chunks>>
    /\ IF Typed(answer) = StopCommand
       THEN EndLoop(full_transcription, <<Line("stop_received")>>, <<>>)
       ELSE /\ phase' = "recording"
            /\ calls' = <<>>
            /\ stdout' = <<>>
            /\ raised' = NoException
            /\ UNCHANGED <<store, server_time>>

WhisperNext ==
    \/ \E answer \in StartAnswers : main(answer)
    \/ RecordChunk
    \/ \E answer \in PromptAnswers : AnswerPrompt(answer)

WhisperSpec == WhisperInit /\ [][WhisperNext]_vars

LabelNames == <<"joy", "sad", "calm", "fear", "anger", "awe">>
LabelSet == {LabelNames[i] : i \in 1..MaxLabels}
ScoreValues == {125, 500, 904}
ScoreDicts ==
    {d \in UNION {[1..k -> LabelSet \X ScoreValues] : k \in 0..MaxLabels} :
        \A i, j \in DOMAIN d : d[i][1] = d[j][1] => i = j}

ExtractInit ==
    /\ NewHandler
    /\ NoTasks
    /\ NoWhisper
    /\ store = <<>>
    /\ server_time = 0
    /\ \E d \in ScoreDicts, k \in 0..MaxN :
          extract_call = [NoExtract EXCEPT !.emotion_scores = d, !.n = k]

ExtractTopN ==
    /\ ~extract_call.returned
    /\ extract_call' =
          [extract_call EXCEPT
              !.returned = TRUE,
              !.result = _extract_top_n_emotions(extract_call.emotion_scores,
                                                 extract_call.n)]
    /\ UNCHANGED <<phase, chat_id, messages, byte_strs, stdout, raised, calls,
                   store, server_time, received, inbox, task_vars,
                   whisper_vars>>

ExtractTopNAgain ==
    /\ extract_call.returned
    /\ ~extract_call.again
    /\ extract_call' =
          [extract_call EXCEPT
              !.again = TRUE,
              !.result_again = _extract_top_n_emotions(extract_call.result,
                                                       extract_call.n)]
    /\ UNCHANGED <<phase, chat_id, messages, byte_strs, stdout, raised, calls,
                   store, server_time, received, inbox, task_vars,
                   whisper_vars>>

ExtractNext == ExtractTopN \/ ExtractTopNAgain

ExtractSpec == ExtractInit /\ [][ExtractNext]_vars

----------------------------------------------------------------------------
(* What the claims speak of, read off the arrival history and the call     *)
(* trace.                                                                  *)

MetadataReceived == SelectSeq(inbox, LAMBDA e : e.type = "chat_metadata")
TurnsReceived ==
    SelectSeq(inbox, LAMBDA e : e.type \in {"user_message", "assistant_message"})
UserTurnsReceived == SelectSeq(inbox, LAMBDA e : e.type = "user_message")

AnalysisCalls ==
    {"analyze_sentiment_with_chatgpt", "extract_entities_with_emotions"}
CallCount(name) == Cardinality({i \in DOMAIN calls : calls[i].name = name})
Called(name) == CallCount(name) > 0
Printed(kind) == \E i \in DOMAIN stdout : stdout[i].kind = kind
Closed == phase = "closed"
\* the last handler wrote the session's document
Persisted == Closed /\ Call("set", Returned) \in {calls[i] : i \in DOMAIN calls}
SessionDocument == store[DocumentRef(chat_id)]

----------------------------------------------------------------------------
\* C1: when a Text Analysis call raises during the pipeline, the failure is
\* caught locally, the store write still happens, and after a failure of the
\* first call the written record has empty emotional_analysis and
\* empathetic_feedback with transcript and top_emotions populated.
C1_AnalysisFailureTolerated ==
    (Closed /\ \E i \in DOMAIN calls :
                  calls[i].name \in AnalysisCalls /\ calls[i].result = "APIError")
    => /\ Called("set")
       /\ raised \in {NoException, "GoogleAPICallError"}
       /\ (Persisted
           /\ Call("analyze_sentiment_with_chatgpt", "APIError")
                  \in {calls[i] : i \in DOMAIN calls})
          => /\ SessionDocument.emotional_analysis = EmptyStr
             /\ SessionDocument.empathetic_feedback = EmptyStr
             /\ SessionDocument.transcript # EmptyStr

\* C2: closing a session that received no USER turn writes nothing to the
\* store, makes no Text Analysis call and raises nothing.
C2_NoUserTurnNoWrite ==
    [][(phase # "closed" /\ phase' = "closed" /\ UserTurnsReceived = <<>>)
       => /\ store' = store
          /\ server_time' = server_time
          /\ \A i \in DOMAIN calls' :
                calls'[i].name \notin AnalysisCalls \cup {"set"}
          /\ raised' = NoException]_vars

\* C2 witness: an ASSISTANT-only session with a chat id was closed, entered
\* the pipeline and was turned away with the warning.
C2_Witness ==
    /\ Closed
    /\ UserTurnsReceived = <<>>
    /\ messages # <<>>
    /\ calls = <<Call("save_chat_to_firestore", Returned)>>
    /\ Printed("warning")

\* C3 as stated: every close runs the pipeline exactly once, a zero-message
\* session included.
C3_EveryCloseRunsPipelineOnce ==
    Closed => CallCount("save_chat_to_firestore") = 1

\* C3 as amended: a close runs the pipeline at most once, exactly once when
\* the session has a chat id and at least one message and not at all
\* otherwise; a zero-message session prints no warning and persists nothing.
C3_CloseRunsPipelineIfIdAndMessages ==
    Closed =>
        /\ CallCount("save_chat_to_firestore") =
              IF MetadataReceived # <<>> /\ TurnsReceived # <<>> THEN 1 ELSE 0
        /\ TurnsReceived = <<>> => (~Printed("warning") /\ ~Called("set"))

\* C3 witness: a session that got its chat id and no turn was closed without
\* the pipeline being called.
C3_Witness ==
    /\ Closed
    /\ MetadataReceived # <<>>
    /\ TurnsReceived = <<>>
    /\ calls = <<>>
    /\ stdout = <<Line("closed")>>

\* C4 as stated: chat_id is the id of the first metadata event received, and
\* None before it.
C4_ChatIdIsFirstMetadataId ==
    chat_id = IF MetadataReceived = <<>> THEN None
              ELSE MetadataReceived[1].chat_id

\* C4 as amended: chat_id is None until a metadata event arrives and is then
\* the id of the latest metadata event received, which is the key the
\* session's document is written under.
C4_ChatIdIsLatestMetadataId ==
    /\ chat_id = IF MetadataReceived = <<>> THEN None
                 ELSE MetadataReceived[Len(MetadataReceived)].chat_id
    /\ Persisted =>
          /\ DocumentRef(MetadataReceived[Len(MetadataReceived)].chat_id)
                \in DOMAIN store
          /\ store[DocumentRef(MetadataReceived[Len(MetadataReceived)].chat_id)]
                .timestamp = server_time

\* C4 witness: two metadata events with different ids arrived and the
\* session's document was written.
C4_Witness ==
    /\ Persisted
    /\ Len(MetadataReceived) = 2
    /\ MetadataReceived[1].chat_id # MetadataReceived[2].chat_id

----------------------------------------------------------------------------
\* the texts of the USER turns received, in arrival order
UserTexts == [i \in 1..Len(UserTurnsReceived) |-> UserTurnsReceived[i].content]

\* where the i-th of texts starts in their space-joined concatenation, less one
RECURSIVE Offset(_, _)
Offset(texts, i) ==
    IF i = 1 THEN 0 ELSE Offset(texts, i - 1) + Len(texts[i - 1]) + 1

\* t is the texts in order, one space between neighbours and nothing else
IsSpaceJoined(t, texts) ==
    IF texts = <<>> THEN t = EmptyStr
    ELSE /\ Len(t) = Offset(texts, Len(texts)) + Len(texts[Len(texts)])
         /\ \A i \in 1..Len(texts) :
               /\ SubSeq(t, Offset(texts, i) + 1,
                         Offset(texts, i) + Len(texts[i])) = texts[i]
               /\ i > 1 => t[Offset(texts, i)] = " "

\* C5: the persisted transcript is the text of the USER turns, in arrival
\* order, joined by single spaces, with no ASSISTANT text in it.
C5_TranscriptIsUserTextsJoined ==
    Persisted => IsSpaceJoined(SessionDocument.transcript, UserTexts)

\* C5 witness: a document was written for a session with two non-empty USER
\* turns.
C5_Witness ==
    /\ Persisted
    /\ Len(UserTexts) = 2
    /\ UserTexts[1] # EmptyStr
    /\ UserTexts[2] # EmptyStr

----------------------------------------------------------------------------
\* the spoken USER turns received: the ones whose prosody scores are kept
SpokenUserTurns ==
    SelectSeq(UserTurnsReceived, LAMBDA e : e.from_text = FALSE)
LabelsHeard ==
    UNION {Keys(SpokenUserTurns[i].scores) : i \in DOMAIN SpokenUserTurns}
\* the places <<turn, position>> holding a score
Places ==
    UNION {{<<i, j>> : j \in DOMAIN SpokenUserTurns[i].scores} :
              i \in DOMAIN SpokenUserTurns}
HeardAt(label) ==
    {p \in Places : SpokenUserTurns[p[1]].scores[p[2]][1] = label}
ScoresHeard(label) == {SpokenUserTurns[p[1]].scores[p[2]][2] : p \in HeardAt(label)}
MaxHeard(label) ==
    CHOOSE m \in ScoresHeard(label) : \A x \in ScoresHeard(label) : x <= m
Earlier(p, q) == p[1] < q[1] \/ (p[1] = q[1] /\ p[2] < q[2])
FirstHeard(label) ==
    CHOOSE p \in HeardAt(label) : \A q \in HeardAt(label) : p = q \/ Earlier(p, q)
\* a ranks before b: a higher maximum, or the same maximum and heard first
RanksBefore(a, b) ==
    \/ MaxHeard(a) > MaxHeard(b)
    \/ MaxHeard(a) = MaxHeard(b) /\ Earlier(FirstHeard(a), FirstHeard(b))

\* C6: the top_emotions of the written record are the 3 best-ranked labels
\* heard in USER turns (all of them if fewer), each with the maximum score
\* it had in any USER turn, printed to two decimals, best first, equal
\* maxima in the order the labels were first heard.
C6_TopEmotionsAreMaxPerLabelTop3 ==
    Persisted =>
        LET top == SessionDocument.top_emotions
        IN /\ Len(top) = Min(3, Cardinality(LabelsHeard))
           /\ \A k \in 1..Len(top) :
                 /\ top[k][1] \in LabelsHeard
                 /\ top[k][2] = Format2f(MaxHeard(top[k][1]))
                 /\ \A l \in (k + 1)..Len(top) : RanksBefore(top[k][1], top[l][1])
                 /\ \A b \in LabelsHeard \ {top[l][1] : l \in 1..Len(top)} :
                       RanksBefore(top[k][1], b)

\* C6 witness: a document was written after two spoken USER turns that
\* scored the same label differently and heard more than 3 labels.
C6_Witness ==
    /\ Persisted
    /\ Len(SpokenUserTurns) = 2
    /\ Cardinality(LabelsHeard) > 3
    /\ \E a \in LabelsHeard : Cardinality(ScoresHeard(a)) > 1
    /\ \E a, b \in LabelsHeard : a # b /\ MaxHeard(a) = MaxHeard(b)

----------------------------------------------------------------------------
ErrorReceived == \E i \in DOMAIN inbox : inbox[i].type = "error"

\* C8: once an error event has been received, the session consumes no
\* further event: nothing is appended to messages, chat_id is not set again,
\* and the exception on_message raised ends at on_error, which raises
\* nothing.
C8_ErrorEventHaltsConsumption ==
    [][/\ (ErrorReceived /\ phase' # "constructed")
          => /\ inbox' = inbox
             /\ messages' = messages
             /\ chat_id' = chat_id
             /\ byte_strs' = byte_strs
       /\ phase' = "failed"
          => (raised' = "ApiError" /\ messages' = messages /\ chat_id' = chat_id)
       /\ phase' = "errored" => raised' = NoException]_vars

\* C8 witness: an error event arrived with events still to come, after a
\* turn was stored, and the session went on to close.
C8_Witness ==
    /\ Closed
    /\ ErrorReceived
    /\ messages # <<>>
    /\ received < MaxEvents

----------------------------------------------------------------------------
\* C9: a failed store write is logged and re-raised out of the pipeline; it
\* is attempted once only and leaves the store as it was.
C9_WriteFailureReraised ==
    [][(phase # "closed" /\ phase' = "closed"
        /\ \E i \in DOMAIN calls' : calls'[i] = Call("set", "GoogleAPICallError"))
       => /\ raised' = "GoogleAPICallError"
          /\ \E i \in DOMAIN stdout' : stdout'[i] = Line("save_error")
          /\ \E i \in DOMAIN stdout' : stdout'[i] = Line("error_type")
          /\ Cardinality({i \in DOMAIN calls' : calls'[i].name = "set"}) = 1
          /\ store' = store]_vars

\* C9 witness: the write was attempted, failed, and the exception left
\* on_close.
C9_Witness ==
    /\ Closed
    /\ calls # <<>>
    /\ calls[Len(calls)] = Call("set", "GoogleAPICallError")
    /\ raised = "GoogleAPICallError"

----------------------------------------------------------------------------
\* C10: a pipeline run that writes under a chat id the store already holds
\* a document for leaves exactly the documents that were there, the one
\* under that id now being this run's record and all others unchanged.
C10_SameIdOverwrites ==
    [][(phase # "closed" /\ phase' = "closed"
        /\ \E i \in DOMAIN calls' : calls'[i] = Call("set", Returned)
        /\ <<"Hume", chat_id>> \in DOMAIN store)
       => /\ DOMAIN store' = DOMAIN store
          /\ \A ref \in DOMAIN store \ {<<"Hume", chat_id>>} :
                store'[ref] = store[ref]
          /\ store'[<<"Hume", chat_id>>].timestamp = server_time + 1
          /\ store'[<<"Hume", chat_id>>].timestamp
                > store[<<"Hume", chat_id>>].timestamp
          /\ IsSpaceJoined(store'[<<"Hume", chat_id>>].transcript, UserTexts)]_vars

\* C10 witness: the store held the earlier session's document under c1, a
\* session with the same id and another transcript was persisted, and the
\* store holds one document, the later one.
C10_Witness ==
    /\ Persisted
    /\ chat_id = "c1"
    /\ server_time = 2
    /\ DOMAIN store = {<<"Hume", "c1">>}
    /\ store[<<"Hume", "c1">>].timestamp = 2
    /\ store[<<"Hume", "c1">>].transcript # EarlierStore[<<"Hume", "c1">>].transcript

----------------------------------------------------------------------------
\* where the entry with this label stands in the mapping given
PositionIn(d, label) == CHOOSE i \in DOMAIN d : d[i][1] = label

\* C7: _extract_top_n_emotions(s, n), n >= 0, returns min(n, |s|) entries of
\* s with their scores, in descending score order, entries of equal score in
\* the order s holds them, none left out that scores above one returned; and
\* called on its own result with the same n it returns that result.
C7_TopNSortedStableTruncated ==
    LET s == extract_call.emotion_scores
        n == extract_call.n
        out == extract_call.result
    IN /\ extract_call.returned =>
             /\ Len(out) = Min(n, Len(s))
             /\ \A k \in DOMAIN out : \E i \in DOMAIN s : s[i] = out[k]
             /\ \A k, l \in DOMAIN out :
                   k < l => \/ out[k][2] > out[l][2]
                            \/ /\ out[k][2] = out[l][2]
                               /\ PositionIn(s, out[k][1]) < PositionIn(s, out[l][1])
             /\ \A i \in DOMAIN s :
                   (\A k \in DOMAIN out : out[k] # s[i])
                   => \A k \in DOMAIN out :
                         \/ out[k][2] > s[i][2]
                         \/ /\ out[k][2] = s[i][2]
                            /\ PositionIn(s, out[k][1]) < i
       /\ extract_call.again => extract_call.result_again = out

\* C7 witness: a mapping of three labels, two of them with the same score
\* and the lower score first, was cut to its top two and the result was
\* extracted from again.
C7_Witness ==
    /\ extract_call.again
    /\ extract_call.n = 2
    /\ Len(extract_call.emotion_scores) = 3
    /\ extract_call.emotion_scores[1][2] < extract_call.emotion_scores[2][2]
    /\ extract_call.emotion_scores[2][2] = extract_call.emotion_scores[3][2]
    /\ Len(extract_call.result) = 2

----------------------------------------------------------------------------
\* the role the turn event of that kind is stored under
RoleOf(e) == IF e.type = "user_message" THEN "USER" ELSE "ASSISTANT"

\* C11: within a session messages is append-only and in arrival order: its
\* earlier value is a prefix of its later one at every step, the close
\* pipeline included, and the i-th Message is the i-th turn event received.
C11_MessagesAppendOnly ==
    [][phase' # "constructed" =>
          /\ Len(messages) <= Len(messages')
          /\ SubSeq(messages', 1, Len(messages)) = messages
          /\ Len(messages') <= Len(TurnsReceived')
          /\ \A i \in DOMAIN messages' :
                /\ messages'[i].message = TurnsReceived'[i].content
                /\ messages'[i].role = RoleOf(TurnsReceived'[i])]_vars

\* C11 witness: the pipeline has run over two turns, an assistant's and then
\* a user's, and both are still in messages in that order.
C11_Witness ==
    /\ Closed
    /\ Called("analyze_sentiment_with_chatgpt")
    /\ Len(messages) = 2
    /\ messages[1].role = "ASSISTANT"
    /\ messages[2].role = "USER"

----------------------------------------------------------------------------
\* C12: every Message appended for an ASSISTANT turn, and every Message
\* appended for a text-only turn (from_text true), has an empty emotions
\* map; only voice-derived USER turns carry the event's prosody scores.
C12_OnlySpokenUserTurnsCarryEmotions ==
    /\ Len(messages) = Len(TurnsReceived)
    /\ \A i \in DOMAIN messages :
          IF TurnsReceived[i].type = "user_message" /\ ~TurnsReceived[i].from_text
          THEN messages[i].emotions = TurnsReceived[i].scores
          ELSE messages[i].emotions = EmptyDict

\* C12 as the code has it: a Message's emotions are empty exactly when its
\* turn was text-only (from_text true), whatever the role; a voice-derived
\* turn, the user's or the assistant's, carries its event's prosody scores.
C12_SpokenTurnsCarryEmotions ==
    /\ Len(messages) = Len(TurnsReceived)
    /\ \A i \in DOMAIN messages :
          IF TurnsReceived[i].from_text
          THEN messages[i].emotions = EmptyDict
          ELSE messages[i].emotions = TurnsReceived[i].scores

\* C12 witness: a voice-derived assistant turn stored with its scores next
\* to a text-only user turn whose event had scores and which is stored with
\* none.
C12_Witness ==
    \E i, j \in DOMAIN messages :
        /\ messages[i].role = "ASSISTANT"
        /\ messages[i].emotions # EmptyDict
        /\ messages[j].role = "USER"
        /\ TurnsReceived[j].from_text
        /\ TurnsReceived[j].scores # EmptyDict
        /\ messages[j].emotions = EmptyDict

----------------------------------------------------------------------------
\* the entry the first analysis call left in the call trace
SentimentCall ==
    calls[CHOOSE i \in DOMAIN calls :
              calls[i].name = "analyze_sentiment_with_chatgpt"]
\* the completion answered: the call got as far as unpacking the response
SentimentAnswered ==
    Closed /\ Called("analyze_sentiment_with_chatgpt")
           /\ SentimentCall.result # "APIError"
\* where "|||" starts in r
DelimiterPlaces(r) ==
    {k \in 1..Len(r) :
        k + 2 <= Len(r) /\ r[k] = "|" /\ r[k + 1] = "|" /\ r[k + 2] = "|"}
FirstDelimiter(r) ==
    CHOOSE k \in DelimiterPlaces(r) : \A l \in DelimiterPlaces(r) : k <= l
\* t is s less the whitespace at its two ends
IsTrimOf(t, s) ==
    \E a \in 0..Len(s) :
        /\ a + Len(t) <= Len(s)
        /\ SubSeq(s, a + 1, a + Len(t)) = t
        /\ \A i \in 1..Len(s) :
              (i <= a \/ i > a + Len(t)) => s[i] \in {" ", "\n"}
        /\ t # <<>> => (t[1] \notin {" ", "\n"} /\ t[Len(t)] \notin {" ", "\n"})

\* C13: a response of the first analysis call that contains "|||" once or
\* more is split at the first occurrence without raising: the call returns,
\* and what is persisted is the trimmed text before the first delimiter and
\* the trimmed remainder.
C13_SplitOnFirstDelimiter ==
    (SentimentAnswered /\ DelimiterPlaces(SentimentCall.response) # {})
    => LET r == SentimentCall.response
           k == FirstDelimiter(r)
       IN /\ SentimentCall.result = Returned
          /\ Persisted =>
                /\ IsTrimOf(SessionDocument.emotional_analysis,
                            SubSeq(r, 1, k - 1))
                /\ IsTrimOf(SessionDocument.empathetic_feedback,
                            SubSeq(r, k + 3, Len(r)))

----------------------------------------------------------------------------
\* C14: when the response of the first analysis call holds no "|||", the
\* unpacking error leaves save_chat_to_firestore (and on_close) as a
\* ValueError: no field is substituted, the second analysis call and the
\* store write are never made, and the store is as it was.
C14_MissingDelimiterPropagates ==
    [][(SentimentAnswered' /\ ~Closed
            /\ DelimiterPlaces(SentimentCall'.response) = {})
       => /\ SentimentCall'.result = "ValueError"
          /\ raised' = "ValueError"
          /\ calls'[1] = Call("save_chat_to_firestore", "ValueError")
          /\ calls'[Len(calls')] = SentimentCall'
          /\ \A i \in DOMAIN calls' :
                calls'[i].name \notin {"extract_entities_with_emotions", "set"}
          /\ store' = store
          /\ server_time' = server_time]_vars

\* C14 witness: the session closed on a first response "ab", and the
\* ValueError of the unpacking is what left the close callback.
C14_Witness ==
    /\ SentimentAnswered
    /\ SentimentCall.response = <<"a", "b">>
    /\ raised = "ValueError"
    /\ ~Called("set")

----------------------------------------------------------------------------
\* C15: save_chat_to_firestore called with chat_id None or "" raises a
\* ValueError before anything else: before the transcript is looked at (no
\* warning even when there is no user text), before any analysis call and
\* before any write, the store left as it was.
C15_MissingChatIdFailsFast ==
    [][(phase = "calling" /\ phase' = "returned" /\ chat_id \in {None, ""})
       => /\ raised' = "ValueError"
          /\ calls' = <<>>
          /\ ~Printed("warning")'
          /\ Printed("save_error")'
          /\ store' = store
          /\ server_time' = server_time]_vars

\* C15 witness: the call with the empty string as chat_id and only an
\* assistant's message has come back with the ValueError.
C15_Witness ==
    /\ phase = "returned"
    /\ chat_id = ""
    /\ Len(messages) = 1
    /\ messages[1].role = "ASSISTANT"
    /\ raised = "ValueError"

----------------------------------------------------------------------------
\* the places of the call trace where name was called
CallsOf(name) == {i \in DOMAIN calls : calls[i].name = name}

\* C16: whenever the pipeline reaches the store write, both analysis calls
\* have returned before it: in the call trace each of the two stands, ended,
\* ahead of the set call, and nothing is called after the set call.
C16_AnalysesEndBeforeWrite ==
    \A w \in CallsOf("set") :
        /\ \A name \in AnalysisCalls :
              \E a \in CallsOf(name) : a < w /\ calls[a].result = Returned
        /\ \A i \in DOMAIN calls : calls[i].name \in AnalysisCalls => i < w
        /\ w = Len(calls)

\* C16 witness: a session was persisted after both analysis calls returned.
C16_Witness ==
    /\ Persisted
    /\ Len(calls) = 4
    /\ calls[2].name = "analyze_sentiment_with_chatgpt"
    /\ calls[3].name = "extract_entities_with_emotions"
    /\ calls[4].name = "set"

----------------------------------------------------------------------------
ExternalCalls == AnalysisCalls \cup {"set"}
\* the documents a step created or changed
DocumentsWritten ==
    {ref \in DOMAIN store' : ref \notin DOMAIN store \/ store'[ref] # store[ref]}

\* C17: external calls are made at close only and once each: a step that
\* is not the close of the session calls no analysis operation and no set
\* and leaves the store alone, and the close calls each analysis operation
\* and set at most once and creates at most one document.
C17_ExternalCallsOnceAtClose ==
    [][/\ ~(phase \in {"open", "errored"} /\ phase' = "closed")
          => /\ \A i \in DOMAIN calls' :
                   calls'[i].name \notin
                       ExternalCalls \cup {"save_chat_to_firestore"}
             /\ store' = store
             /\ server_time' = server_time
       /\ \A name \in ExternalCalls \cup {"save_chat_to_firestore"} :
             Cardinality({i \in DOMAIN calls' : calls'[i].name = name}) <= 1
       /\ Cardinality(DocumentsWritten) <= 1
       /\ Cardinality(DOMAIN store') <= Cardinality(DOMAIN store) + 1]_vars

\* C17 witness: a session that received three events made each external
\* call once, at its close.
C17_Witness ==
    /\ Persisted
    /\ Len(inbox) = 3
    /\ \A name \in ExternalCalls : CallCount(name) = 1

----------------------------------------------------------------------------
\* the id of the last chat_metadata event received
LastMetadataId == MetadataReceived[Len(MetadataReceived)].chat_id
\* every call of the trace the step leaves has returned, the write included
AllCallsSucceeded ==
    /\ \E i \in DOMAIN calls' : calls'[i].name = "set"
    /\ \A i \in DOMAIN calls' : calls'[i].result = Returned

\* C18: the close that follows an error event works on everything gathered
\* before the error: messages still holds every turn received, the pipeline
\* is called when there is a chat id and a message, it goes on to the
\* analysis when some user turn has text, and when every call succeeds the
\* session's document holds the transcript of the user turns received.
C18_CloseAfterErrorPersists ==
    [][(phase = "errored" /\ phase' = "closed")
       => /\ ErrorReceived
          /\ messages' = messages
          /\ Len(messages) = Len(TurnsReceived)
          /\ \A i \in DOMAIN messages :
                messages[i].message = TurnsReceived[i].content
          /\ (MetadataReceived # <<>> /\ TurnsReceived # <<>>)
             => /\ calls' # <<>>
                /\ calls'[1].name = "save_chat_to_firestore"
          /\ (MetadataReceived # <<>>
                /\ \E i \in DOMAIN UserTexts : UserTexts[i] # EmptyStr)
             => /\ chat_id' = LastMetadataId
                /\ Len(calls') >= 2
                /\ calls'[2].name = "analyze_sentiment_with_chatgpt"
                /\ AllCallsSucceeded
                   => /\ <<"Hume", LastMetadataId>> \in DOMAIN store'
                      /\ IsSpaceJoined(
                            store'[<<"Hume", LastMetadataId>>].transcript,
                            UserTexts)
                      /\ store'[<<"Hume", LastMetadataId>>].timestamp
                            = server_time']_vars

\* C18 witness: a session that stored a turn and then received an error
\* event was closed and persisted.
C18_Witness ==
    /\ Persisted
    /\ ErrorReceived
    /\ inbox[Len(inbox)].type = "error"
    /\ UserTexts # <<>>
    /\ SessionDocument.transcript = UserTexts[1]

----------------------------------------------------------------------------
TurnTypes == {"user_message", "assistant_message"}
\* the step hands on_message an event of one of these types
Receives(types) ==
    /\ Len(inbox') = Len(inbox) + 1
    /\ inbox'[Len(inbox')].type \in types

\* C19: within a session a user_message or assistant_message event adds one
\* Message to messages, and nothing else changes messages: not a
\* chat_metadata, audio_output, error or unrecognized event, nor any other
\* callback; so messages is as long as the number of turn events received.
C19_OneMessagePerTurnEvent ==
    [][/\ phase' # "constructed"
          => IF Receives(TurnTypes)
             THEN Len(messages') = Len(messages) + 1
             ELSE messages' = messages
       /\ Len(messages') =
             Cardinality({i \in DOMAIN inbox' : inbox'[i].type \in TurnTypes})]_vars

\* C19 witness: of three events received, an audio_output, an unrecognized
\* one and a user turn, only the turn is in messages.
C19_Witness ==
    /\ Len(inbox) = 3
    /\ \E i \in DOMAIN inbox : inbox[i].type = "audio_output"
    /\ \E i \in DOMAIN inbox : inbox[i].type = "tool_call"
    /\ Len(messages) = 1

----------------------------------------------------------------------------
AudioReceived == SelectSeq(inbox, LAMBDA e : e.type = "audio_output")
\* the bytes the two base64 texts of AudioEvents stand for: "a" and "ab"
PayloadOf(data) ==
    CASE data = <<"Y", "Q", "=", "=">> -> <<97>>
      [] data = <<"Y", "W", "I", "=">> -> <<97, 98>>

\* C20: an audio_output event puts one payload, the decoded bytes of its
\* data, at the end of byte_strs, leaves chat_id and messages alone and
\* prints nothing; no other step of the session touches byte_strs, so the
\* sink holds the payloads of the audio events received, in arrival order.
C20_AudioForwardedInOrder ==
    [][/\ phase' # "constructed"
          => IF Receives({"audio_output"})
             THEN /\ byte_strs' =
                        Append(byte_strs, PayloadOf(inbox'[Len(inbox')].data))
                  /\ chat_id' = chat_id
                  /\ messages' = messages
                  /\ stdout' = <<>>
                  /\ raised' = NoException
             ELSE byte_strs' = byte_strs
       /\ Len(byte_strs') = Len(AudioReceived')
       /\ \A i \in DOMAIN byte_strs' :
             byte_strs'[i] = PayloadOf(AudioReceived'[i].data)]_vars

\* C20 witness: two audio events with different payloads arrived after a
\* chat id and were put on the sink, the first one first.
C20_Witness ==
    /\ Len(byte_strs) = 2
    /\ byte_strs[1] = <<97, 98>>
    /\ byte_strs[2] = <<97>>
    /\ chat_id = "c1"

----------------------------------------------------------------------------
\* the step is one of a task beside the handler, not a callback
TaskStep == played' # played \/ user_inputs' # user_inputs
\* a Message but for the time it was stored at
Turn(m) == [role |-> m.role, message |-> m.message, emotions |-> m.emotions]
\* the Message content the turn event e stands for
TurnOf(e) ==
    [role |-> RoleOf(e), message |-> e.content,
     emotions |-> IF e.from_text THEN EmptyDict ELSE e.scores]

\* C21: however the steps of the microphone task and of sending_handler
\* fall between the callbacks, they leave chat_id and messages alone, and
\* chat_id and messages are what the events received so far make them: the
\* id of the last chat_metadata event, and one Message per turn event.
C21_SessionStateDependsOnEventsOnly ==
    [][/\ TaskStep => (chat_id' = chat_id /\ messages' = messages)
       /\ chat_id' = IF MetadataReceived' = <<>> THEN None
                     ELSE LastMetadataId'
       /\ Len(messages') = Len(TurnsReceived')
       /\ \A i \in DOMAIN messages' :
             i <= Len(TurnsReceived')
             => Turn(messages'[i]) = TurnOf(TurnsReceived'[i])]_vars

\* C21 witness: a session closed with an id and two turns, during which
\* the audio task played a payload and sending_handler sent its input.
C21_Witness ==
    /\ Closed
    /\ user_inputs = <<HelloThere>>
    /\ played = 1
    /\ chat_id = "c2"
    /\ messages # <<>>

----------------------------------------------------------------------------
\* the session got an id and user turns, all of them typed (from_text),
\* at least one with text
TextOnlySession ==
    /\ MetadataReceived # <<>>
    /\ UserTurnsReceived # <<>>
    /\ \A i \in DOMAIN UserTurnsReceived : UserTurnsReceived[i].from_text
    /\ \E i \in DOMAIN UserTexts : UserTexts[i] # EmptyStr

\* C22: a closed session whose user turns were all text-only and not all
\* empty goes through the whole pipeline: no warning, the first analysis
\* call is made, the second once the first returned, the write once both
\* returned, and the document written has the transcript and an empty
\* top_emotions mapping.
C22_TextOnlySessionPersisted ==
    (Closed /\ TextOnlySession)
    => /\ ~Printed("warning")
       /\ Called("analyze_sentiment_with_chatgpt")
       /\ SentimentCall.result = Returned
          => Called("extract_entities_with_emotions")
       /\ (\A i \in DOMAIN calls :
              calls[i].name \in AnalysisCalls => calls[i].result = Returned)
          => Called("set")
       /\ (\A i \in DOMAIN calls : calls[i].result = Returned) => Persisted
       /\ Persisted
          => /\ SessionDocument.top_emotions = EmptyDict
             /\ IsSpaceJoined(SessionDocument.transcript, UserTexts)

\* C22 witness: a session with a typed user turn and a spoken assistant
\* turn, which carries scores, was persisted with no top emotions.
C22_Witness ==
    /\ Persisted
    /\ TextOnlySession
    /\ \E i \in DOMAIN messages :
          messages[i].role = "ASSISTANT" /\ messages[i].emotions # EmptyDict
    /\ SessionDocument.top_emotions = EmptyDict

----------------------------------------------------------------------------
\* C23: the close of a session that received no chat_metadata event, with
\* whatever messages, does not enter the pipeline: it makes no call, prints
\* its one line, raises nothing and leaves the store as it was.
C23_NoMetadataNoPipeline ==
    [][(phase \in {"open", "errored"} /\ phase' = "closed"
            /\ MetadataReceived = <<>>)
       => /\ chat_id = None
          /\ calls' = <<>>
          /\ stdout' = <<Line("closed")>>
          /\ raised' = NoException
          /\ store' = store
          /\ server_time' = server_time]_vars

\* C23 witness: a session closed with spoken user turns and no chat id, and
\* its close made no call.
C23_Witness ==
    /\ Closed
    /\ MetadataReceived = <<>>
    /\ Len(messages) >= 2
    /\ \E i \in DOMAIN messages :
          messages[i].role = "USER" /\ messages[i].message # EmptyStr
    /\ calls = <<>>
    /\ raised = NoException

----------------------------------------------------------------------------
\* the calls process_transcription_with_chatgpt made in the step
ProcessingCalls ==
    SelectSeq(calls', LAMBDA c : c.name # "transcribe_with_whisper")
\* what the analysis call left for its field of the record
FieldOf(call) == IF call.result = Returned THEN call.response ELSE EmptyStr

\* C24: process_transcription_with_chatgpt calls the first analysis, then
\* the second whether or not the first failed, then the write, once each,
\* and raises nothing; a write that succeeds adds one document with the
\* transcription and, for each analysis, its answer or "" when it failed; a
\* write that fails is printed and leaves the store as it was.
C24_WriteAttemptedOnceWhateverFails ==
    [][(phase # "finished" /\ phase' = "finished")
       => /\ Len(ProcessingCalls) = 3
          /\ ProcessingCalls[1].name = "analyze_sentiment_with_chatgpt"
          /\ ProcessingCalls[2].name = "extract_entities_with_emotions"
          /\ ProcessingCalls[3].name = "set"
          /\ raised' = NoException
          /\ IF ProcessingCalls[3].result = Returned
             THEN /\ Cardinality(DOMAIN store' \ DOMAIN store) = 1
                  /\ \A ref \in DOMAIN store : store'[ref] = store[ref]
                  /\ \A ref \in DOMAIN store' \ DOMAIN store :
                        /\ store'[ref].transcription = full_transcription'
                        /\ store'[ref].sentiment = FieldOf(ProcessingCalls[1])
                        /\ store'[ref].entities = FieldOf(ProcessingCalls[2])
             ELSE /\ store' = store
                  /\ \E i \in DOMAIN stdout' :
                        stdout'[i].kind = "firestore_error"]_vars

\* C24 witness: the first analysis failed, the second answered, and the
\* record was written with "" for the first and the answer for the second.
C24_Witness ==
    /\ phase = "finished"
    /\ \E i \in DOMAIN calls :
          calls[i] = Call("analyze_sentiment_with_chatgpt", "APIError")
    /\ \E ref \in DOMAIN store :
          /\ store[ref].sentiment = EmptyStr
          /\ store[ref].entities = <<"e">>
          /\ store[ref].transcription = full_transcription

----------------------------------------------------------------------------
\* the chunk transcripts that hold "that's it" in some casing, and the
\* answers that read "start" and "stop" once trimmed and lowered
TerminatingChunks ==
    {<<"T", "h", "a", "t", "'", "s", " ", "i", "t">>,
     <<"o", "k", " ", "t", "h", "a", "t", "'", "s", " ", "i", "t", "!">>}
StartTyped == {<<"s", "t", "a", "r", "t">>, <<" ", "S", "t", "a", "r", "t">>}
StopTyped == {<<"s", "t", "o", "p">>, <<"S", "T", "O", "P", " ">>}
LastAnswer == inbox'[Len(inbox')]
LastChunk == chunks'[Len(chunks')]
PromptShown == \E i \in DOMAIN stdout' : stdout'[i].kind = "stop_prompt"

\* C25: main enters the loop on "start" only; each chunk recorded is added
\* to the text; a chunk that says "that's it" in any casing ends the loop
\* with no prompt shown, any other chunk is followed by the prompt, where
\* "stop" ends the loop and anything else records again; the step that ends
\* the loop runs the analysis-and-save once, on the chunks recorded so far,
\* each led by a space, the last one included, and nothing runs after it.
C25_LoopEndsOnPhraseOrStop ==
    [][/\ phase \notin {"finished", "exited", "crashed"}
       /\ phase = "main"
          => /\ phase' = IF LastAnswer \in StartTyped THEN "recording"
                         ELSE "exited"
             /\ calls' = <<>>
             /\ chunks' = <<>>
       /\ phase = "recording"
          => IF chunks' = chunks
             THEN /\ phase' = "crashed"
                  /\ calls' = <<Call("transcribe_with_whisper", "APIError")>>
                  /\ store' = store
             ELSE /\ Len(chunks') = Len(chunks) + 1
                  /\ SubSeq(chunks', 1, Len(chunks)) = chunks
                  /\ IF LastChunk \in TerminatingChunks
                     THEN phase' = "finished" /\ ~PromptShown
                     ELSE /\ phase' = "prompting"
                          /\ PromptShown
                          /\ ProcessingCalls = <<>>
                          /\ store' = store
       /\ phase = "prompting"
          => /\ chunks' = chunks
             /\ IF LastAnswer \in StopTyped
                THEN phase' = "finished"
                ELSE /\ phase' = "recording"
                     /\ calls' = <<>>
                     /\ store' = store
       /\ IsSpaceJoined(full_transcription', <<EmptyStr>> \o chunks')
       /\ phase' = "finished"
          => /\ \A name \in ExternalCalls :
                   Cardinality({i \in DOMAIN calls' : calls'[i].name = name}) = 1
             /\ \A ref \in DOMAIN store' :
                   IsSpaceJoined(store'[ref].transcription,
                                 <<EmptyStr>> \o chunks')]_vars

\* C25 witness: after "start", a chunk "hi", Enter at the prompt and a chunk
\* "That's it", the text " hi That's it" was analysed and saved.
C25_Witness ==
    /\ phase = "finished"
    /\ chunks = <<<<"h", "i">>, <<"T", "h", "a", "t", "'", "s", " ", "i", "t">>>>
    /\ Len(inbox) = 2
    /\ \E ref \in DOMAIN store :
          store[ref].transcription =
             <<" ", "h", "i", " ", "T", "h", "a", "t", "'", "s", " ", "i", "t">>

====
